---- MODULE Spec2Model ----
(***************************************************************************)
(* Model of fish_speech/utils/schema.py: the pydantic request schemas, the *)
(* reference-audio normalizer (ServeReferenceAudio.decode_audio) and the   *)
(* example loader (AudioExample.load_from_path).                           *)
(*                                                                         *)
(* Python values are records [type, val].  A str is a sequence of code     *)
(* points, a bytes object a sequence of 0..255, a float is kept in         *)
(* hundredths (0.1 is 10, 1.0 is 100), so that str and bytes are different *)
(* values and the str -> bytes coercion of a bytes field is a real         *)
(* conversion.                                                             *)
(***************************************************************************)
EXTENDS Integers, Sequences, FiniteSets, TLC

VARIABLES call, pc, outcome, handle, opens, exc, audio_bytes

vars == <<call, pc, outcome, handle, opens, exc, audio_bytes>>

(***************************************************************************)
(* Bounds of the input space.                                              *)
(***************************************************************************)
\* longest free tail appended to the fixed base64 prefix of an audio string
MaxTail == 3

(***************************************************************************)
(* Python values.                                                          *)
(***************************************************************************)
Missing == [type |-> "missing", val |-> <<>>]
PyNone == [type |-> "NoneType", val |-> <<>>]
PyStr(s) == [type |-> "str", val |-> s]
PyBytes(b) == [type |-> "bytes", val |-> b]
PyInt(n) == [type |-> "int", val |-> n]
PyFloat(h) == [type |-> "float", val |-> h]
PyBool(b) == [type |-> "bool", val |-> b]
PyDict == [type |-> "dict", val |-> <<>>]
PyList(l) == [type |-> "list", val |-> l]

\* equality of two Python values: a str never equals a bytes object
PyEq(a, b) == a.type = b.type /\ a.val = b.val

(***************************************************************************)
(* str.encode("utf-8"): the coercion pydantic applies to a str given to a  *)
(* bytes field, and str.encode("ascii") inside base64.b64decode.           *)
(***************************************************************************)
Utf8Char(c) ==
  IF c < 128 THEN <<c>>
  ELSE IF c < 2048 THEN <<192 + (c \div 64), 128 + (c % 64)>>
  ELSE <<224 + (c \div 4096), 128 + ((c \div 64) % 64), 128 + (c % 64)>>

\* the encodings of s[lo..hi], concatenated
RECURSIVE Utf8Range(_, _, _)
Utf8Range(s, lo, hi) ==
  IF lo > hi THEN <<>>
  ELSE IF lo = hi THEN Utf8Char(s[lo])
  ELSE LET mid == (lo + hi) \div 2
       IN Utf8Range(s, lo, mid) \o Utf8Range(s, mid + 1, hi)

Utf8Encode(s) == Utf8Range(s, 1, Len(s))

IsAscii(s) == \A i \in 1..Len(s) : s[i] < 128

(***************************************************************************)
(* base64.b64decode(s) with validate=False, i.e. binascii.a2b_base64 in    *)
(* its non-strict mode: characters outside the alphabet are skipped, a pad *)
(* that completes a quad ends the parse, and an incomplete quad at the end *)
(* raises binascii.Error.  A str with a non-ASCII character raises         *)
(* ValueError before any decoding.                                         *)
(***************************************************************************)
BASE64_PAD == 61

\* a table with the values of '+' and '/' exchanged
table_a2b_base64_swapped(c) ==
  IF c >= 65 /\ c <= 90 THEN c - 65
  ELSE IF c >= 97 /\ c <= 122 THEN c - 71
  ELSE IF c >= 48 /\ c <= 57 THEN c + 4
  ELSE IF c = 43 THEN 63
  ELSE IF c = 47 THEN 62
  ELSE 64

table_a2b_base64(c) ==
  IF c >= 65 /\ c <= 90 THEN c - 65
  ELSE IF c >= 97 /\ c <= 122 THEN c - 71
  ELSE IF c >= 48 /\ c <= 57 THEN c + 4
  ELSE IF c = 43 THEN 62
  ELSE IF c = 47 THEN 63
  ELSE 64

\* the decoder's registers before the first character
a2b_start == [quad_pos |-> 0, leftchar |-> 0, pads |-> 0, out |-> <<>>, done |-> FALSE]

\* one turn of the decoder's loop on character c; done is the "goto done"
a2b_step(st, c) ==
  IF st.done THEN st
  ELSE IF c = BASE64_PAD
  THEN IF st.quad_pos >= 2 /\ st.quad_pos + st.pads + 1 >= 4
       THEN [st EXCEPT !.done = TRUE]
       ELSE IF st.quad_pos >= 2 THEN [st EXCEPT !.pads = @ + 1] ELSE st
  ELSE LET this_ch == table_a2b_base64(c) IN
       IF this_ch >= 64 THEN st
       ELSE CASE st.quad_pos = 0 ->
                   [st EXCEPT !.quad_pos = 1, !.leftchar = this_ch, !.pads = 0]
              [] st.quad_pos = 1 ->
                   [st EXCEPT !.quad_pos = 2, !.leftchar = this_ch % 16, !.pads = 0,
                              !.out = Append(@, st.leftchar * 4 + (this_ch \div 16))]
              [] st.quad_pos = 2 ->
                   [st EXCEPT !.quad_pos = 3, !.leftchar = this_ch % 4, !.pads = 0,
                              !.out = Append(@, st.leftchar * 16 + (this_ch \div 4))]
              [] OTHER ->
                   [st EXCEPT !.quad_pos = 0, !.leftchar = 0, !.pads = 0,
                              !.out = Append(@, st.leftchar * 64 + this_ch)]

\* the loop over s[lo..hi], from registers st
RECURSIVE a2b_loop(_, _, _, _)
a2b_loop(st, s, lo, hi) ==
  IF lo > hi THEN st
  ELSE IF lo = hi THEN a2b_step(st, s[lo])
  ELSE LET mid == (lo + hi) \div 2
           half == a2b_loop(st, s, lo, mid)
       IN IF half.done THEN half ELSE a2b_loop(half, s, mid + 1, hi)

\* binascii.a2b_base64(s): an incomplete quad at the end of the input is
\* an error, unless a pad sequence ended the parse
a2b_base64(s) ==
  LET st == a2b_loop(a2b_start, s, 1, Len(s))
  IN IF ~st.done /\ st.quad_pos # 0
     THEN [ok |-> FALSE, val |-> <<>>]
     ELSE [ok |-> TRUE, val |-> st.out]

b64decode(s) ==
  IF ~IsAscii(s)
  THEN [ok |-> FALSE, val |-> <<>>]
  ELSE a2b_base64(s)

(***************************************************************************)
(* pydantic field validation.  A validation result is [ok, val].           *)
(* The inputs of the model are exactly typed (an int for an int field, a   *)
(* float for a float field, a str of an enumeration) or None, which no     *)
(* mode coerces to a number, so lax and strict type checks agree on them.  *)
(***************************************************************************)
Ok(v) == [ok |-> TRUE, val |-> v]
Err == [ok |-> FALSE, val |-> Missing]

\* Metadata of an Annotated[...] field.  Field(ge=, le=, strict=) is a
\* FieldInfo; conint(ge=, le=, strict=) evaluates to the type
\* Annotated[int, Strict, Interval], which placed as *metadata* of another
\* Annotated is an object pydantic does not know.
NoMeta == [kind |-> "none", ge |-> 0, le |-> 0, strict |-> FALSE]
FieldInfo(ge, le) == [kind |-> "FieldInfo", ge |-> ge, le |-> le, strict |-> TRUE]
conint(ge, le) == [kind |-> "AnnotatedAlias", ge |-> ge, le |-> le, strict |-> TRUE]

\* bounds applied as gt/lt instead of ge/le
apply_known_metadata_exclusive(meta, n) ==
  IF meta.kind = "FieldInfo" THEN n > meta.ge /\ n < meta.le ELSE TRUE

\* _known_annotated_metadata.apply_known_metadata: the constraints of a
\* FieldInfo are applied to the schema, any other unknown metadata is ignored.
apply_known_metadata(meta, n) ==
  IF meta.kind = "FieldInfo" THEN n >= meta.ge /\ n <= meta.le ELSE TRUE

\* a number field that does not check the type of what it is given
NumberField_untyped(v, pytype, meta, default) ==
  IF v.type = "missing" THEN Ok(default) ELSE Ok(v)

\* an int or float field: default when omitted, type check, then the bounds
NumberField(v, pytype, meta, default) ==
  IF v.type = "missing" THEN Ok(default)
  ELSE IF v.type # pytype THEN Err
  ELSE IF ~apply_known_metadata(meta, v.val) THEN Err
  ELSE Ok(v)

\* a required str field
StrField(v) == IF v.type = "str" THEN Ok(v) ELSE Err

\* a bytes field that keeps a str as it is
BytesField_nocoerce(v) ==
  IF v.type \in {"bytes", "str"} THEN Ok(v) ELSE Err

\* a required bytes field (lax mode): bytes are kept, a str is encoded
BytesField(v) ==
  IF v.type = "bytes" THEN Ok(v)
  ELSE IF v.type = "str" THEN Ok(PyBytes(Utf8Encode(v.val)))
  ELSE Err

\* a Literal field that accepts any str
LiteralField_any(v, allowed, default) ==
  IF v.type = "missing" THEN Ok(PyStr(default))
  ELSE IF v.type = "str" THEN Ok(v)
  ELSE Err

\* a Literal[...] field with a default
LiteralField(v, allowed, default) ==
  IF v.type = "missing" THEN Ok(PyStr(default))
  ELSE IF v.type = "str" /\ v.val \in allowed THEN Ok(v)
  ELSE Err

\* a required dict field
DictField(v) == IF v.type = "dict" THEN Ok(v) ELSE Err

\* a required SkipValidation[...] field: present is all that is asked
SkipValidationField(v) == IF v.type = "missing" THEN Err ELSE Ok(v)

(***************************************************************************)
(* ServeReferenceAudio: the "before" validator decode_audio, then the      *)
(* field validation of audio: bytes and text: str.                         *)
(***************************************************************************)
B64Threshold == 255

\* decode_audio with the threshold test written >=
decode_audio_ge(values) ==
  LET audio == values.audio IN
  IF audio.type = "str" /\ Len(audio.val) >= B64Threshold
  THEN LET d == b64decode(audio.val) IN
       IF d.ok
       THEN [values |-> [values EXCEPT !.audio = PyBytes(d.val)], decode |-> "decoded"]
       ELSE [values |-> values, decode |-> "failed"]
  ELSE [values |-> values, decode |-> "not_attempted"]

\* decode_audio that drops the audio it could not decode
decode_audio_drop(values) ==
  LET audio == values.audio IN
  IF audio.type = "str" /\ Len(audio.val) > B64Threshold
  THEN LET d == b64decode(audio.val) IN
       IF d.ok
       THEN [values |-> [values EXCEPT !.audio = PyBytes(d.val)], decode |-> "decoded"]
       ELSE [values |-> [values EXCEPT !.audio = PyNone], decode |-> "failed"]
  ELSE [values |-> values, decode |-> "not_attempted"]

\* decode_audio(values): [values, decode] where decode records whether
\* base64.b64decode was called and how it ended
decode_audio(values) ==
  LET audio == values.audio IN
  IF audio.type = "str" /\ Len(audio.val) > B64Threshold
  THEN LET d == b64decode(audio.val) IN
       IF d.ok
       THEN [values |-> [values EXCEPT !.audio = PyBytes(d.val)], decode |-> "decoded"]
       ELSE [values |-> values, decode |-> "failed"]
  ELSE [values |-> values, decode |-> "not_attempted"]

ServeReferenceAudio(values) ==
  LET before == decode_audio(values)
      audio == BytesField(before.values.audio)
      text == StrField(before.values.text)
  IN IF audio.ok /\ text.ok
     THEN [status |-> "ok", decode |-> before.decode,
           value |-> [audio |-> audio.val, text |-> text.val]]
     ELSE [status |-> "ValidationError", decode |-> before.decode,
           value |-> Missing]

(***************************************************************************)
(* ServeTTSRequest.                                                        *)
(***************************************************************************)
ServeTTSRequest(a) ==
  LET text == StrField(a.text)
      chunk_length == NumberField(a.chunk_length, "int", conint(100, 300), PyInt(200))
      format == LiteralField(a.format, {"wav", "pcm", "mp3"}, "wav")
      top_p == NumberField(a.top_p, "float", FieldInfo(10, 100), PyFloat(80))
      repetition_penalty ==
        NumberField(a.repetition_penalty, "float", FieldInfo(90, 200), PyFloat(110))
      temperature == NumberField(a.temperature, "float", FieldInfo(10, 100), PyFloat(80))
  IN IF text.ok /\ chunk_length.ok /\ format.ok /\ top_p.ok
        /\ repetition_penalty.ok /\ temperature.ok
     THEN [status |-> "ok", decode |-> "not_attempted",
           value |-> [text |-> text.val, chunk_length |-> chunk_length.val,
                      format |-> format.val, references |-> PyList(<<>>),
                      reference_id |-> PyNone, seed |-> PyNone,
                      use_memory_cache |-> PyStr("off"), normalize |-> PyBool(TRUE),
                      streaming |-> PyBool(FALSE), max_new_tokens |-> PyInt(1024),
                      top_p |-> top_p.val,
                      repetition_penalty |-> repetition_penalty.val,
                      temperature |-> temperature.val]]
     ELSE [status |-> "ValidationError", decode |-> "not_attempted", value |-> Missing]

(***************************************************************************)
(* ServeRequest (the generation request): plain typed fields, no bounds.   *)
(***************************************************************************)
ServeRequest(a) ==
  LET content == DictField(a.content)
      max_new_tokens == NumberField(a.max_new_tokens, "int", NoMeta, PyInt(600))
      top_p == NumberField(a.top_p, "float", NoMeta, PyFloat(70))
      temperature == NumberField(a.temperature, "float", NoMeta, PyFloat(70))
      num_samples == NumberField(a.num_samples, "int", NoMeta, PyInt(1))
  IN IF content.ok /\ max_new_tokens.ok /\ top_p.ok /\ temperature.ok /\ num_samples.ok
     THEN [status |-> "ok", decode |-> "not_attempted",
           value |-> [content |-> content.val, max_new_tokens |-> max_new_tokens.val,
                      top_p |-> top_p.val, repetition_penalty |-> PyFloat(120),
                      temperature |-> temperature.val, streaming |-> PyBool(FALSE),
                      num_samples |-> num_samples.val,
                      early_stop_threshold |-> PyFloat(100)]]
     ELSE [status |-> "ValidationError", decode |-> "not_attempted", value |-> Missing]

(***************************************************************************)
(* The content parts: type: Literal[tag] = tag, and one payload field.     *)
(***************************************************************************)
PartTags == {"vq", "text", "audio"}

PartPayload(tag, v) ==
  CASE tag = "vq" -> SkipValidationField(v)
    [] tag = "text" -> StrField(v)
    [] OTHER -> BytesField(v)

\* ServeVQPart, ServeTextPart, ServeAudioPart, named by their tag
ServePart(tag, a) ==
  LET type == LiteralField(a.type, {tag}, tag)
      payload == PartPayload(tag, a.payload)
  IN IF type.ok /\ payload.ok
     THEN [status |-> "ok", decode |-> "not_attempted",
           value |-> [type |-> type.val, payload |-> payload.val]]
     ELSE [status |-> "ValidationError", decode |-> "not_attempted", value |-> Missing]

(***************************************************************************)
(* AudioExample.load_from_path, one step at a time.  The file system under *)
(* the path is part of the call: fs says what open() and read() do.        *)
(*   try:                                                                  *)
(*       with open(audio_path, "rb") as f:      LoadOpen                   *)
(*           audio_bytes = f.read()             LoadRead                   *)
(*                                              LoadExitWith (f.__exit__)  *)
(*       return ServeReferenceAudio(...)        LoadConstruct              *)
(*   except Exception as e:                                                *)
(*       raise ValueError(f"...{e}")            LoadExcept                 *)
(***************************************************************************)
FsKinds == {"file", "missing", "denied", "unreadable"}

\* open(audio_path, "rb"): the exception it raises, "none" when it succeeds
OpenError(fs) ==
  CASE fs = "missing" -> "FileNotFoundError"
    [] fs = "denied" -> "PermissionError"
    [] OTHER -> "none"

\* f.read(): the exception it raises, "none" when it succeeds
ReadError(fs) == IF fs = "unreadable" THEN "OSError" ELSE "none"

IsLoad == call.cls = "AudioExample.load_from_path"

LoadOpen ==
  /\ IsLoad /\ pc = "idle"
  /\ opens' = opens + 1
  /\ IF OpenError(call.args.fs) = "none"
     THEN handle' = "open" /\ exc' = exc /\ pc' = "read"
     ELSE handle' = handle /\ exc' = OpenError(call.args.fs) /\ pc' = "except"
  /\ UNCHANGED <<call, outcome, audio_bytes>>

LoadRead ==
  /\ IsLoad /\ pc = "read"
  /\ IF ReadError(call.args.fs) = "none"
     THEN audio_bytes' = call.args.content /\ exc' = exc
     ELSE audio_bytes' = audio_bytes /\ exc' = ReadError(call.args.fs)
  /\ pc' = "exit_with"
  /\ UNCHANGED <<call, outcome, handle, opens>>

\* a close() after the read instead of a with block: skipped by an exception
LoadExitWith_leak ==
  /\ IsLoad /\ pc = "exit_with"
  /\ handle' = IF exc = "none" THEN "closed" ELSE handle
  /\ pc' = IF exc = "none" THEN "construct" ELSE "except"
  /\ UNCHANGED <<call, outcome, opens, exc, audio_bytes>>

\* leaving the with block, normally or by an exception, closes the file
LoadExitWith ==
  /\ IsLoad /\ pc = "exit_with"
  /\ handle' = "closed"
  /\ pc' = IF exc = "none" THEN "construct" ELSE "except"
  /\ UNCHANGED <<call, outcome, opens, exc, audio_bytes>>

LoadConstruct ==
  /\ IsLoad /\ pc = "construct"
  /\ LET r == ServeReferenceAudio([audio |-> PyBytes(audio_bytes), text |-> call.args.text])
     IN IF r.status = "ok"
        THEN /\ outcome' = [status |-> "returned", decode |-> r.decode, value |-> r.value]
             /\ exc' = exc
             /\ pc' = "done"
        ELSE /\ outcome' = outcome
             /\ exc' = r.status
             /\ pc' = "except"
  /\ UNCHANGED <<call, handle, opens, audio_bytes>>

\* a handler that re-raises what it caught
LoadExcept_reraise ==
  /\ IsLoad /\ pc = "except"
  /\ outcome' = [status |-> exc, decode |-> "not_attempted", value |-> PyStr(exc)]
  /\ pc' = "done"
  /\ UNCHANGED <<call, handle, opens, exc, audio_bytes>>

\* the handler: the caught exception's text goes into the ValueError raised
LoadExcept ==
  /\ IsLoad /\ pc = "except"
  /\ outcome' = [status |-> "ValueError", decode |-> "not_attempted",
                 value |-> PyStr(exc)]
  /\ pc' = "done"
  /\ UNCHANGED <<call, handle, opens, exc, audio_bytes>>

(***************************************************************************)
(* The constructors as one-step calls.                                     *)
(***************************************************************************)
Construct(cls, r) ==
  /\ call.cls = cls /\ pc = "idle"
  /\ outcome' = r
  /\ pc' = "done"
  /\ UNCHANGED <<call, handle, opens, exc, audio_bytes>>

NewReferenceAudio == Construct("ServeReferenceAudio", ServeReferenceAudio(call.args))

NewTTSRequest == Construct("ServeTTSRequest", ServeTTSRequest(call.args))

NewRequest == Construct("ServeRequest", ServeRequest(call.args))

NewPart == Construct("ServePart", ServePart(call.args.tag, call.args))

(***************************************************************************)
(* The inputs.                                                             *)
(***************************************************************************)
\* an audio string is a run of the base64 text "Qz9/Qz9/..." of one of these
\* lengths, followed by a free tail of at most MaxTail characters
PrefixLens == {0, 1, 4, 252, 253, 254, 255, 256}

PrefixPattern == <<81, 122, 57, 47>>

Prefix(n) == [i \in 1..n |-> PrefixPattern[((i - 1) % 4) + 1]]

\* 'Q', '=', '!' (outside the alphabet), U+00E9 (outside ASCII)
TailChars == {81, 61, 33, 233}

Tails == UNION {[1..k -> TailChars] : k \in 0..MaxTail}

AudioStrings == {Prefix(n) \o t : n \in PrefixLens, t \in Tails}

AudioBuffers == {<<>>, <<82, 73, 70, 70>>, <<255, 0, 61>>}

Texts == {<<>>, <<104, 105>>}

RefInputs ==
  {[audio |-> PyStr(s), text |-> PyStr(t)] : s \in AudioStrings, t \in Texts}
  \cup {[audio |-> PyBytes(b), text |-> PyStr(t)] : b \in AudioBuffers, t \in Texts}
  \cup {[audio |-> a, text |-> PyStr(<<104, 105>>)] : a \in {Missing, PyInt(7)}}
  \cup {[audio |-> PyStr(s), text |-> t] : s \in {<<>>, Prefix(256)}, t \in {Missing, PyInt(7)}}

ChunkLengths == {99, 100, 200, 300, 301}

Fractions == {9, 10, 100, 101}

Penalties == {89, 90, 200, 201}

OptNumber(pytype, S) ==
  {[type |-> pytype, val |-> n] : n \in S} \cup {Missing, PyNone}

TTSInputs ==
  [text : {PyStr(<<104, 105>>), Missing},
   chunk_length : OptNumber("int", ChunkLengths) \ {PyNone},
   format : {Missing, PyStr("ogg")},
   top_p : OptNumber("float", Fractions),
   repetition_penalty : OptNumber("float", Penalties) \ {PyNone},
   temperature : OptNumber("float", Fractions) \ {PyNone}]

RequestInputs ==
  [content : {PyDict, Missing},
   max_new_tokens : OptNumber("int", {-1, 0, 600}),
   top_p : OptNumber("float", {-50, 0, 1, 100, 150}),
   temperature : OptNumber("float", {-10, 0, 70}),
   num_samples : OptNumber("int", {-1, 0, 1, 2})]

PartTypes == {Missing, PyStr("vq"), PyStr("text"), PyStr("audio"), PyStr("image"), PyInt(7)}

PartPayloads ==
  {Missing, PyList(<<<<1, 2, 3>>, <<4, 5, 6>>>>), PyStr(<<104, 105>>),
   PyBytes(<<82, 73, 70, 70>>), PyInt(7)}

PartInputs == [tag : PartTags, type : PartTypes, payload : PartPayloads]

LoadInputs ==
  [fs : FsKinds, content : AudioBuffers,
   text : {PyStr(<<104, 105>>), PyStr(<<>>), PyInt(7)}]

Init ==
  /\ \/ \E a \in RefInputs : call = [cls |-> "ServeReferenceAudio", args |-> a]
     \/ \E a \in TTSInputs : call = [cls |-> "ServeTTSRequest", args |-> a]
     \/ \E a \in RequestInputs : call = [cls |-> "ServeRequest", args |-> a]
     \/ \E a \in PartInputs : call = [cls |-> "ServePart", args |-> a]
     \/ \E a \in LoadInputs : call = [cls |-> "AudioExample.load_from_path", args |-> a]
  /\ pc = "idle"
  /\ outcome = [status |-> "none", decode |-> "not_attempted", value |-> Missing]
  /\ handle = "closed"
  /\ opens = 0
  /\ exc = "none"
  /\ audio_bytes = <<>>

Next ==
  \/ NewReferenceAudio
  \/ NewTTSRequest
  \/ NewRequest
  \/ NewPart
  \/ LoadOpen
  \/ LoadRead
  \/ LoadExitWith
  \/ LoadConstruct
  \/ LoadExcept

Spec == Init /\ [][Next]_vars

(***************************************************************************)
(* Notions the properties are stated in, independent of the code above.    *)
(***************************************************************************)
\* the base64 alphabet of RFC 4648, in value order: A-Z a-z 0-9 + /
B64Alphabet ==
  [i \in 1..26 |-> 64 + i] \o [i \in 1..26 |-> 96 + i]
    \o [i \in 1..10 |-> 47 + i] \o <<43, 47>>

B64Index(c) == CHOOSE i \in 0..63 : B64Alphabet[i + 1] = c

InAlphabet(c) == \E i \in 1..64 : B64Alphabet[i] = c

\* number of '=' that end s, at most two counted
NPad(s) ==
  IF Len(s) >= 2 /\ s[Len(s)] = 61 /\ s[Len(s) - 1] = 61 THEN 2
  ELSE IF Len(s) >= 1 /\ s[Len(s)] = 61 THEN 1
  ELSE 0

\* s is padded base64 text: whole quads of alphabet characters, the last
\* one ending in at most two '='
IsValidBase64(s) ==
  /\ Len(s) % 4 = 0
  /\ \A i \in 1..(Len(s) - NPad(s)) : InAlphabet(s[i])
  /\ NPad(s) > 0 => InAlphabet(s[Len(s) - 3]) /\ InAlphabet(s[Len(s) - 2])

\* the 24-bit number the q-th quad of s stands for
QuadValue(s, q) ==
  LET v(k) == IF s[4 * (q - 1) + k] = 61 THEN 0 ELSE B64Index(s[4 * (q - 1) + k])
  IN v(1) * 262144 + v(2) * 4096 + v(3) * 64 + v(4)

\* the bytes that valid base64 text s encodes
RFC4648Decode(s) ==
  [j \in 1..(3 * (Len(s) \div 4) - NPad(s)) |->
     LET n == QuadValue(s, ((j - 1) \div 3) + 1)
     IN CASE (j - 1) % 3 = 0 -> n \div 65536
          [] (j - 1) % 3 = 1 -> (n \div 256) % 256
          [] OTHER -> n % 256]

Done(cls) == call.cls = cls /\ pc = "done"

InRange(v, lo, hi) == v.type \in {"int", "float"} /\ v.val >= lo /\ v.val <= hi

OutOfRange(v, lo, hi) == v.type \in {"int", "float"} /\ (v.val < lo \/ v.val > hi)

AtEnd(v, lo, hi) == v.type = "float" /\ v.val \in {lo, hi}

(***************************************************************************)
(* ServeTTSRequest                                                         *)
(***************************************************************************)
\* the fields of a TTS call other than chunk_length are valid
TTSOthersValid(a) ==
  /\ a.text.type = "str"
  /\ a.format.type = "missing" \/ (a.format.type = "str" /\ a.format.val \in {"wav", "pcm", "mp3"})
  /\ a.top_p.type = "missing" \/ InRange(a.top_p, 10, 100)
  /\ a.repetition_penalty.type = "missing" \/ InRange(a.repetition_penalty, 90, 200)
  /\ a.temperature.type = "missing" \/ InRange(a.temperature, 10, 100)

\* C1: constructing a TTS request fails for every chunk_length outside
\* [100,300] and succeeds for every chunk_length inside it, the other
\* fields being valid.
C1_ChunkLengthRange ==
  Done("ServeTTSRequest") /\ call.args.chunk_length.type = "int" =>
    /\ OutOfRange(call.args.chunk_length, 100, 300) => outcome.status = "ValidationError"
    /\ InRange(call.args.chunk_length, 100, 300) /\ TTSOthersValid(call.args) =>
         outcome.status = "ok"

\* C2: constructing a TTS request fails whenever top_p is outside [0.1,1.0],
\* repetition_penalty outside [0.9,2.0] or temperature outside [0.1,1.0], and
\* succeeds, storing the values given, when each of the three is at either
\* end of its range and the other fields are valid.
C2_SamplingRanges ==
  Done("ServeTTSRequest") =>
    LET a == call.args IN
    /\ (\/ OutOfRange(a.top_p, 10, 100)
        \/ OutOfRange(a.repetition_penalty, 90, 200)
        \/ OutOfRange(a.temperature, 10, 100))
         => outcome.status = "ValidationError" /\ outcome.value = Missing
    /\ (/\ AtEnd(a.top_p, 10, 100)
        /\ AtEnd(a.repetition_penalty, 90, 200)
        /\ AtEnd(a.temperature, 10, 100)
        /\ a.text.type = "str"
        /\ a.format.type = "missing"
        /\ a.chunk_length.type = "missing" \/ InRange(a.chunk_length, 100, 300))
         => /\ outcome.status = "ok"
            /\ PyEq(outcome.value.top_p, a.top_p)
            /\ PyEq(outcome.value.repetition_penalty, a.repetition_penalty)
            /\ PyEq(outcome.value.temperature, a.temperature)

\* a request was built with top_p at its lower end and the other two at
\* their upper ends
C2_Witness ==
  /\ Done("ServeTTSRequest")
  /\ outcome.status = "ok"
  /\ PyEq(call.args.top_p, PyFloat(10))
  /\ PyEq(call.args.repetition_penalty, PyFloat(200))
  /\ PyEq(call.args.temperature, PyFloat(100))

(***************************************************************************)
(* ServeReferenceAudio                                                     *)
(***************************************************************************)
\* a finished ServeReferenceAudio call whose audio is a str and whose text
\* is a str
RefStrCall ==
  /\ Done("ServeReferenceAudio")
  /\ call.args.audio.type = "str"
  /\ call.args.text.type = "str"

C4_Original ==
  RefStrCall /\ Len(call.args.audio.val) <= 255 =>
    /\ outcome.decode = "not_attempted"
    /\ outcome.status = "ok"
    /\ PyEq(outcome.value.audio, call.args.audio)

\* C4 amended: for every audio string of at most 255 characters no decode is
\* attempted and the stored audio is the bytes object holding the UTF-8
\* encoding of the input string.
C4_ShortStringEncoded ==
  RefStrCall /\ Len(call.args.audio.val) <= 255 =>
    /\ outcome.decode = "not_attempted"
    /\ outcome.status = "ok"
    /\ PyEq(outcome.value.audio, PyBytes(Utf8Encode(call.args.audio.val)))
    /\ PyEq(outcome.value.text, call.args.text)

\* a string of exactly 255 characters that b64decode would accept was
\* stored undecoded
C4_Witness ==
  /\ RefStrCall
  /\ Len(call.args.audio.val) = 255
  /\ b64decode(call.args.audio.val).ok
  /\ outcome.status = "ok"
  /\ outcome.decode = "not_attempted"

\* C5: for every audio string longer than 255 characters that is valid
\* base64, the stored audio is the bytes the string encodes and the text is
\* stored unchanged.
C5_ValidBase64Decoded ==
  RefStrCall /\ Len(call.args.audio.val) > 255 /\ IsValidBase64(call.args.audio.val) =>
    /\ outcome.status = "ok"
    /\ PyEq(outcome.value.audio, PyBytes(RFC4648Decode(call.args.audio.val)))
    /\ PyEq(outcome.value.text, call.args.text)

\* a padded base64 string of more than 255 characters was decoded
C5_Witness ==
  /\ RefStrCall
  /\ Len(call.args.audio.val) > 255
  /\ IsValidBase64(call.args.audio.val)
  /\ NPad(call.args.audio.val) = 1
  /\ call.args.text.val # <<>>
  /\ outcome.status = "ok"
  /\ Len(outcome.value.audio.val) = 191

\* the stored audio is still the text of a base64 string given
Base64TextRemains ==
  /\ call.args.audio.type = "str"
  /\ call.args.audio.val # <<>>
  /\ IsValidBase64(call.args.audio.val)
  /\ outcome.value.audio.val = Utf8Encode(call.args.audio.val)

\* C6 as stated: in every constructed Reference Audio record the audio field
\* holds raw binary and no base64 text remains as the stored audio.
C6_Original ==
  Done("ServeReferenceAudio") /\ outcome.status = "ok" =>
    /\ outcome.value.audio.type = "bytes"
    /\ ~Base64TextRemains

\* C6 amended: in every constructed Reference Audio record the audio field
\* is a bytes object; bytes given are stored as given, base64 text of more
\* than 255 characters never remains, and base64 text of at most 255
\* characters always remains, as its UTF-8 bytes.
C6_AudioIsBytes ==
  Done("ServeReferenceAudio") /\ outcome.status = "ok" =>
    /\ outcome.value.audio.type = "bytes"
    /\ \A i \in 1..Len(outcome.value.audio.val) : outcome.value.audio.val[i] \in 0..255
    /\ call.args.audio.type = "bytes" => PyEq(outcome.value.audio, call.args.audio)
    /\ call.args.audio.type = "str" /\ call.args.audio.val # <<>>
         /\ IsValidBase64(call.args.audio.val) =>
           (Base64TextRemains <=> Len(call.args.audio.val) <= 255)

\* a short base64 string was stored as the bytes of its text
C6_Witness ==
  /\ Done("ServeReferenceAudio")
  /\ outcome.status = "ok"
  /\ Base64TextRemains
  /\ Len(call.args.audio.val) = 4

(***************************************************************************)
(* ServeRequest                                                            *)
(***************************************************************************)
\* a numeric field of the generation request is outside the bound the
\* data model gives it
RequestOutOfBound(a) ==
  \/ a.max_new_tokens.type = "int" /\ a.max_new_tokens.val < 0
  \/ a.top_p.type = "float" /\ (a.top_p.val <= 0 \/ a.top_p.val > 100)
  \/ a.temperature.type = "float" /\ a.temperature.val <= 0
  \/ a.num_samples.type = "int" /\ a.num_samples.val < 1

\* every field given to the generation request has the type of its field
RequestWellTyped(a) ==
  /\ a.content.type = "dict"
  /\ a.max_new_tokens.type \in {"missing", "int"}
  /\ a.top_p.type \in {"missing", "float"}
  /\ a.temperature.type \in {"missing", "float"}
  /\ a.num_samples.type \in {"missing", "int"}

\* the value stored for a field: the one given, or the default
Stored(given, default, stored) ==
  IF given.type = "missing" THEN PyEq(stored, default) ELSE PyEq(stored, given)

PartPayloadValid(tag, v) ==
  CASE tag = "vq" -> v.type # "missing"
    [] tag = "text" -> v.type = "str"
    [] OTHER -> v.type \in {"bytes", "str"}

FsErrors == {"FileNotFoundError", "PermissionError", "OSError"}

\* the file system error a path of this kind gives
FsErrorOf(fs) ==
  CASE fs = "missing" -> "FileNotFoundError"
    [] fs = "denied" -> "PermissionError"
    [] fs = "unreadable" -> "OSError"
    [] OTHER -> "none"

\* C9: given a path that does not exist or cannot be opened or read, the
\* loader ends by raising the wrapping error, which carries the original
\* cause; no file system exception type reaches the caller, and the file
\* is opened at most once.
C9_LoadErrorWrapped ==
  /\ call.cls = "AudioExample.load_from_path" => opens <= 1
  /\ Done("AudioExample.load_from_path") =>
       /\ outcome.status \notin FsErrors
       /\ call.args.fs # "file" =>
            /\ outcome.status = "ValueError"
            /\ PyEq(outcome.value, PyStr(FsErrorOf(call.args.fs)))
            /\ opens = 1

\* the loader was given a path that does not exist and raised ValueError
C9_Witness ==
  /\ Done("AudioExample.load_from_path")
  /\ call.args.fs = "missing"
  /\ outcome.status = "ValueError"
  /\ opens = 1

\* C10: on every exit path of the loader the file handle it opened is
\* closed before the call returns or raises; the handle is open only
\* inside the with block.
C10_HandleClosed ==
  /\ Done("AudioExample.load_from_path") => handle = "closed"
  /\ handle = "open" => pc \in {"read", "exit_with"} /\ opens = 1

\* the loader opened the file, the read failed, and the call has raised
C10_Witness ==
  /\ Done("AudioExample.load_from_path")
  /\ call.args.fs = "unreadable"
  /\ opens = 1
  /\ outcome.status = "ValueError"
  /\ handle = "closed"

====
